---- MODULE Spec2Model ----
(***************************************************************************)
(* Model of the newton simulation driver: Mass / Body / Environment        *)
(* (src/src/physics/mod.rs) and the frame writer DataWriter                *)
(* (src/src/util/write.rs).                                                *)
(*                                                                         *)
(* f32 values are modelled as records: Num(n) for the number n, NaN for    *)
(* the not-a-number value.  The numbers used are small integers, masses    *)
(* are 1 or 2 and force components are even, so every f32 operation the    *)
(* code performs on them (+, / by 1 or 2, <=) is exact.                    *)
(***************************************************************************)
EXTENDS Integers, Sequences, FiniteSets, TLC

VARIABLES
    dirs,      \* the directories that exist in the file system
    files,     \* path -> the lines of the file at that path
    writers,   \* writer id -> DataWriter {directory, counter}
    log,       \* writer id -> the frames that writer wrote successfully (history)
    env,       \* the Environment {bodies, fields, writer}, live once constructed
    panic,     \* "none", or the panic that ended the process
    steps,     \* number of Environment::update calls that returned normally (history)
    traj,      \* body positions at the end of each returned update (history)
    last,      \* what the latest update call did (history)
    locals,    \* bodies held in local variables (as in the unit tests)
    lastOp     \* the latest operation on a local body (history)

vars == <<dirs, files, writers, log, env, panic, steps, traj, last, locals, lastOp>>

\* ------------------------------------------------------------------ bounds
MaxBodies == 2
MaxSteps == 2
MaxWriters == 2
MaxLocals == 3
MaxOps == 2

\* ------------------------------------------------------------- f32 values
Num(n) == [k |-> "num", v |-> n]
NaN == [k |-> "nan", v |-> 0]
Zero == Num(0)

FAdd(a, b) == IF a.k = "nan" \/ b.k = "nan" THEN NaN ELSE Num(a.v + b.v)
FDiv(a, b) == IF a.k = "nan" \/ b.k = "nan" THEN NaN ELSE Num(a.v \div b.v)
\* IEEE comparison: every comparison with NaN is false
FLe(a, b) == a.k = "num" /\ b.k = "num" /\ a.v <= b.v
FGt(a, b) == a.k = "num" /\ b.k = "num" /\ a.v > b.v
\* Display of an f32
Fmt(a) == IF a.k = "nan" THEN "NaN" ELSE ToString(a.v)

\* ------------------------------------------------------------- geometry
Point(x, y) == [x |-> Num(x), y |-> Num(y)]
Vector(dx, dy) == [dx |-> Num(dx), dy |-> Num(dy)]
VecDiv(f, s) == [dx |-> FDiv(f.dx, s), dy |-> FDiv(f.dy, s)]
VecAdd(a, b) == [dx |-> FAdd(a.dx, b.dx), dy |-> FAdd(a.dy, b.dy)]

\* ------------------------------------------------------------------ Mass
\* Mass::new: the value, or a panic when m <= 0.0
MassNew(m) == [ok |-> ~FLe(m, Zero), mass |-> m]
MassFrom(m) == MassNew(m)

\* ------------------------------------------------------------------ Body
\* id is the identity of the object (a ghost field; the code has none)
BodyNew(m, p, v, id) ==
    [ok |-> MassFrom(m).ok,
     body |-> [mass |-> MassFrom(m).mass, position |-> p, velocity |-> v, id |-> id]]

BodyClone(b, id) == BodyNew(b.mass, b.position, b.velocity, id)

\* faulty variant of apply_force: the force is not scaled by 1 / mass
apply_force_unscaled(b, f) == [b EXCEPT !.velocity = VecAdd(b.velocity, f)]

apply_force(b, f) == [b EXCEPT !.velocity = VecAdd(b.velocity, VecDiv(f, b.mass))]

apply_velocity(b) ==
    [b EXCEPT !.position = [x |-> FAdd(b.position.x, b.velocity.dx),
                            y |-> FAdd(b.position.y, b.velocity.dy)]]

Init ==
    /\ dirs = {}
    /\ files = << >>
    /\ writers = << >>
    /\ log = << >>
    /\ env = [live |-> FALSE, bodies |-> << >>, fields |-> << >>, writer |-> 0]
    /\ panic = "none"
    /\ steps = 0
    /\ traj = << >>
    /\ last = [calls |-> 0, pre |-> << >>, views |-> << >>, outs |-> << >>,
               io |-> [kind |-> "ok", at |-> 0]]
    /\ locals = << >>
    /\ lastOp = [kind |-> "none", at |-> 0, n |-> 0]

\* ------------------------------------------------------------ DataWriter
\* fs with the file at path created or truncated to content
Put(fs, path, content) ==
    [q \in (DOMAIN fs) \cup {path} |-> IF q = path THEN content ELSE fs[q]]

\* faulty variant of FramePath: the frames are numbered from 1
FramePathFromOne(directory, counter) ==
    directory \o "/frame-" \o ToString(counter + 1) \o ".txt"

\* format!("{}/frame-{}.txt", self.directory, self.counter)
FramePath(directory, counter) ==
    directory \o "/frame-" \o ToString(counter) \o ".txt"

\* writeln!(file, "{},{}", point.x, point.y)
Line(point) == Fmt(point.x) \o "," \o Fmt(point.y)

\* The outcomes of the file operations of one write: all succeed, File::create
\* fails, or the writeln! of line `at` fails after the lines before it.
IoOutcomes(n) ==
    {[kind |-> "ok", at |-> 0], [kind |-> "create", at |-> 0]}
        \cup {[kind |-> "line", at |-> i] : i \in 1..n}

\* DataWriter::new: creates the directory when it does not exist (mk: whether
\* fs::create_dir succeeds); the counter starts at 0.
DataWriterNew(ds, directory, mk) ==
    [ok |-> directory \in ds \/ mk,
     dirs |-> ds \cup {directory},
     writer |-> [directory |-> directory, counter |-> 0]]

\* DataWriter::write_points: File::create truncates; one line per point
write_points(fs, points, path, io) ==
    IF io.kind = "create"
    THEN [ok |-> FALSE, files |-> fs]
    ELSE LET n == IF io.kind = "line" THEN io.at - 1 ELSE Len(points)
         IN  [ok |-> io.kind = "ok",
              files |-> Put(fs, path, [i \in 1..n |-> Line(points[i])])]

\* faulty variant of DataWriterWrite: the Err of write_points is dropped
DataWriterWriteIgnoreErr(w, fs, points, io) ==
    LET path == FramePath(w.directory, w.counter)
        r == write_points(fs, points, path, io)
    IN  [ok |-> TRUE,
         files |-> r.files,
         writer |-> [w EXCEPT !.counter = w.counter + 1],
         frame |-> [path |-> path, lines |-> [i \in 1..Len(points) |-> Line(points[i])]]]

\* DataWriter::write: panics on Err, otherwise advances the counter
DataWriterWrite(w, fs, points, io) ==
    LET path == FramePath(w.directory, w.counter)
        r == write_points(fs, points, path, io)
    IN  [ok |-> r.ok,
         files |-> r.files,
         writer |-> IF r.ok THEN [w EXCEPT !.counter = w.counter + 1] ELSE w,
         frame |-> [path |-> path, lines |-> [i \in 1..Len(points) |-> Line(points[i])]]]

\* ----------------------------------------------------------- Environment
DirNames == {"data", "temp"}
FieldInputs == {<< >>, <<"BruteForce">>, <<"BruteForce", "BHField">>}
ForceInputs == {Vector(0, 0), Vector(4, -2)}
BodyInputs ==
    {[mass |-> Num(1), position |-> Point(0, 0), velocity |-> Vector(0, 0)],
     [mass |-> Num(2), position |-> Point(1, 2), velocity |-> Vector(-2, 5)],
     [mass |-> NaN, position |-> Point(1, 2), velocity |-> Vector(0, 0)],
     [mass |-> Num(0), position |-> Point(0, 0), velocity |-> Vector(0, 0)],
     [mass |-> Num(-10), position |-> Point(0, 0), velocity |-> Vector(0, 0)]}
PointInputs == {<< >>, <<Point(3, 6)>>, <<Point(6, 7), Point(1, 2)>>}

\* Field::forces: one force per body of the view it is given, in body order.
\* The field implementations are not part of the modelled sources; a field here
\* returns no force at all, or a force that differs from body to body.
FieldForces(view) ==
    {[i \in 1..Len(view) |-> Vector(0, 0)],
     [i \in 1..Len(view) |-> Vector(2 * i, -4 * i)]}

\* for (body, force) in self.bodies.iter_mut().zip(forces.iter())
ApplyForces(bs, forces) ==
    [i \in 1..Len(bs) |-> IF i <= Len(forces) THEN apply_force(bs[i], forces[i]) ELSE bs[i]]

\* the bodies after the forces of the first k fields have been applied
RECURSIVE AfterFields(_, _, _)
AfterFields(bs, outs, k) ==
    IF k = 0 THEN bs ELSE ApplyForces(AfterFields(bs, outs, k - 1), outs[k])

\* faulty variant of ApplyVelocities: the bodies come out in reverse order
ApplyVelocitiesReversed(bs) ==
    [i \in 1..Len(bs) |-> apply_velocity(bs[Len(bs) + 1 - i])]

ApplyVelocities(bs) == [i \in 1..Len(bs) |-> apply_velocity(bs[i])]

Positions(bs) == [i \in 1..Len(bs) |-> bs[i].position]

\* Environment::default
EnvDefault(ds, mk) ==
    LET d == DataWriterNew(ds, "data", mk)
    IN  [ok |-> d.ok, dirs |-> d.dirs,
         bodies |-> << >>, fields |-> <<"BHField">>, writer |-> d.writer]

\* ---------------------------------------------------------------- actions
Running == panic = "none"

\* let w = DataWriter::new(d)
WriterNew ==
    \E d \in DirNames, mk \in BOOLEAN :
        LET r == DataWriterNew(dirs, d, mk) IN
        /\ Running
        /\ Len(writers) < MaxWriters
        /\ IF r.ok
           THEN /\ dirs' = r.dirs
                /\ writers' = Append(writers, r.writer)
                /\ log' = Append(log, << >>)
                /\ UNCHANGED panic
           ELSE /\ panic' = "create_dir"
                /\ UNCHANGED <<dirs, writers, log>>
        /\ UNCHANGED <<files, env, steps, traj, last, locals, lastOp>>

\* w.write(points) on a writer that no environment owns
WriterWrite ==
    \E w \in DOMAIN writers, points \in PointInputs :
      \E io \in IoOutcomes(Len(points)) :
        LET r == DataWriterWrite(writers[w], files, points, io) IN
        /\ Running
        /\ w # env.writer
        /\ writers[w].counter < MaxSteps
        /\ files' = r.files
        /\ writers' = [writers EXCEPT ![w] = r.writer]
        /\ IF r.ok
           THEN log' = [log EXCEPT ![w] = Append(@, r.frame)] /\ UNCHANGED panic
           ELSE panic' = "write" /\ UNCHANGED log
        /\ UNCHANGED <<dirs, env, steps, traj, last, locals, lastOp>>

\* Environment::new(fields, writer): Environment { fields, writer, ..Self::default() }
EnvNew ==
    \E fields \in FieldInputs, w \in DOMAIN writers, mk \in BOOLEAN :
        LET d == EnvDefault(dirs, mk) IN
        /\ Running
        /\ ~env.live
        /\ IF d.ok
           THEN /\ dirs' = d.dirs
                /\ env' = [live |-> TRUE, bodies |-> d.bodies, fields |-> fields, writer |-> w]
                /\ UNCHANGED panic
           ELSE /\ panic' = "create_dir"
                /\ UNCHANGED <<dirs, env>>
        /\ UNCHANGED <<files, writers, log, steps, traj, last, locals, lastOp>>

\* Environment::default()
EnvNewDefault ==
    \E mk \in BOOLEAN :
        LET d == EnvDefault(dirs, mk) IN
        /\ Running
        /\ ~env.live
        /\ Len(writers) < MaxWriters
        /\ IF d.ok
           THEN /\ dirs' = d.dirs
                /\ writers' = Append(writers, d.writer)
                /\ log' = Append(log, << >>)
                /\ env' = [live |-> TRUE, bodies |-> d.bodies, fields |-> d.fields,
                           writer |-> Len(writers) + 1]
                /\ UNCHANGED panic
           ELSE /\ panic' = "create_dir"
                /\ UNCHANGED <<dirs, writers, log, env>>
        /\ UNCHANGED <<files, steps, traj, last, locals, lastOp>>

\* env.bodies.push(Body::new(mass, position, velocity)), at scenario setup
Push ==
    \E b \in BodyInputs :
        LET r == BodyNew(b.mass, b.position, b.velocity, Len(env.bodies) + 1) IN
        /\ Running
        /\ env.live
        /\ steps = 0
        /\ Len(env.bodies) < MaxBodies
        /\ IF r.ok
           THEN env' = [env EXCEPT !.bodies = Append(@, r.body)] /\ UNCHANGED panic
           ELSE panic' = "mass" /\ UNCHANGED env
        /\ UNCHANGED <<dirs, files, writers, log, steps, traj, last, locals, lastOp>>

\* Environment::update
Update ==
    /\ Running
    /\ env.live
    /\ steps < MaxSteps
    /\ \E outs \in [1..Len(env.fields) -> FieldForces(env.bodies)] :
       \E io \in IoOutcomes(Len(env.bodies)) :
         LET forced == AfterFields(env.bodies, outs, Len(env.fields))
             moved == ApplyVelocities(forced)
             points == Positions(moved)
             r == DataWriterWrite(writers[env.writer], files, points, io)
         IN  /\ env' = [env EXCEPT !.bodies = moved]
             /\ last' = [calls |-> last.calls + 1,
                         io |-> io,
                         pre |-> env.bodies,
                         views |-> [k \in 1..Len(env.fields) |->
                                       AfterFields(env.bodies, outs, k - 1)],
                         outs |-> outs]
             /\ files' = r.files
             /\ writers' = [writers EXCEPT ![env.writer] = r.writer]
             /\ IF r.ok
                THEN /\ log' = [log EXCEPT ![env.writer] = Append(@, r.frame)]
                     /\ steps' = steps + 1
                     /\ traj' = Append(traj, points)
                     /\ UNCHANGED panic
                ELSE /\ panic' = "write"
                     /\ UNCHANGED <<log, steps, traj>>
    /\ UNCHANGED <<dirs, locals, lastOp>>

Next ==
    \/ WriterNew
    \/ EnvNew
    \/ EnvNewDefault
    \/ Push
    \/ Update

Spec == Init /\ [][Next]_vars

\* ------------------------------------------------- bodies in local variables
\* the address of the i-th local body, in units of size_of::<Body>()
AddrOf(i) == i

SameValue(a, b) ==
    a.mass = b.mass /\ a.position = b.position /\ a.velocity = b.velocity

\* faulty variant of BodyEq: equality by value, as #[derive(PartialEq)] would give
BodyEqByValue(i, j) == SameValue(locals[i], locals[j])

\* PartialEq for Body, on two references: self as *const _ == other as *const _
BodyEq(i, j) == AddrOf(i) = AddrOf(j)

\* let b = Body::new(mass, position, velocity)
LocalNew ==
    \E b \in BodyInputs :
        LET r == BodyNew(b.mass, b.position, b.velocity, Len(locals) + 1) IN
        /\ Running
        /\ Len(locals) < MaxLocals
        /\ IF r.ok
           THEN /\ locals' = Append(locals, r.body)
                /\ lastOp' = [kind |-> "new", at |-> Len(locals) + 1, n |-> lastOp.n,
                              input |-> b]
                /\ UNCHANGED panic
           ELSE /\ panic' = "mass"
                /\ lastOp' = [kind |-> "new", at |-> 0, n |-> lastOp.n, input |-> b]
                /\ UNCHANGED locals
        /\ UNCHANGED <<dirs, files, writers, log, env, steps, traj, last>>

\* let c = locals[i].clone()
LocalClone ==
    \E i \in DOMAIN locals :
        LET r == BodyClone(locals[i], Len(locals) + 1) IN
        /\ Running
        /\ Len(locals) < MaxLocals
        /\ IF r.ok
           THEN /\ locals' = Append(locals, r.body)
                /\ lastOp' = [kind |-> "clone", at |-> Len(locals) + 1, n |-> lastOp.n,
                              from |-> i]
                /\ UNCHANGED panic
           ELSE /\ panic' = "mass"
                /\ UNCHANGED <<locals, lastOp>>
        /\ UNCHANGED <<dirs, files, writers, log, env, steps, traj, last>>

\* locals[i].apply_force(&f)
LocalApplyForce ==
    \E i \in DOMAIN locals, f \in ForceInputs :
        /\ Running
        /\ lastOp.n < MaxOps
        /\ locals' = [locals EXCEPT ![i] = apply_force(@, f)]
        /\ lastOp' = [kind |-> "apply_force", at |-> i, n |-> lastOp.n + 1,
                      before |-> locals[i], force |-> f]
        /\ UNCHANGED <<dirs, files, writers, log, env, panic, steps, traj, last>>

\* locals[i].apply_velocity()
LocalApplyVelocity ==
    \E i \in DOMAIN locals :
        /\ Running
        /\ lastOp.n < MaxOps
        /\ locals' = [locals EXCEPT ![i] = apply_velocity(@)]
        /\ lastOp' = [kind |-> "apply_velocity", at |-> i, n |-> lastOp.n + 1,
                      before |-> locals[i]]
        /\ UNCHANGED <<dirs, files, writers, log, env, panic, steps, traj, last>>

BodyNext ==
    \/ LocalNew
    \/ LocalClone
    \/ LocalApplyForce
    \/ LocalApplyVelocity

BodySpec == Init /\ [][BodyNext]_vars

\* The writer used on its own, as in tests::data_writer_writes
WriterNext ==
    \/ WriterNew
    \/ WriterWrite

WriterSpec == Init /\ [][WriterNext]_vars

\* ================================================================ claims
Updated == env.live /\ last.calls > 0

\* the sum of the forces the fields 1..k returned for body i
RECURSIVE SumForces(_, _, _)
SumForces(outs, i, k) ==
    IF k = 0 THEN Vector(0, 0) ELSE VecAdd(SumForces(outs, i, k - 1), outs[k][i])

\* v after adding, field by field, each of the first k fields' force / m
RECURSIVE VelocityAfter(_, _, _, _, _)
VelocityAfter(v, m, outs, i, k) ==
    IF k = 0 THEN v
    ELSE VecAdd(VelocityAfter(v, m, outs, i, k - 1), VecDiv(outs[k][i], m))

\* C1: in every update the forces are computed from the body state before the
\* step, the i-th force of a field goes to the i-th body (velocity_i grows by
\* force_i / mass_i), and each position is then advanced by the velocity
\* already updated: new position_i = old position_i + new velocity_i.
C1_ForceVelocityPosition ==
    Updated =>
        /\ \A k \in DOMAIN last.views : last.views[k] = last.pre
        /\ \A i \in DOMAIN last.pre :
            /\ env.bodies[i].velocity =
                   VelocityAfter(last.pre[i].velocity, last.pre[i].mass,
                                 last.outs, i, Len(last.outs))
            /\ env.bodies[i].position.x =
                   FAdd(last.pre[i].position.x, env.bodies[i].velocity.dx)
            /\ env.bodies[i].position.y =
                   FAdd(last.pre[i].position.y, env.bodies[i].velocity.dy)

\* C2: every update that returns has made exactly one write; after k updates
\* the environment's (fresh) writer has written exactly the frames 0..k-1, and
\* frame j holds one line per body, in body order, with the position after
\* step j+1.
C2_OneFramePerStep ==
    env.live =>
        LET w == writers[env.writer]
            lg == log[env.writer]
        IN  /\ Len(lg) = steps
            /\ Len(traj) = steps
            /\ w.counter = steps
            /\ \A j \in 1..steps :
                /\ lg[j].path = w.directory \o "/frame-" \o ToString(j - 1) \o ".txt"
                /\ lg[j].path \in DOMAIN files
                /\ files[lg[j].path] = lg[j].lines
                /\ Len(lg[j].lines) = Len(env.bodies)
                /\ \A i \in DOMAIN env.bodies :
                       lg[j].lines[i] = Line(traj[j][i])
            /\ (Running /\ steps > 0) => traj[steps] = Positions(env.bodies)
            /\ Running =>
                   DOMAIN files = {lg[j].path : j \in 1..steps}

C2_Witness ==
    /\ Running
    /\ steps = 2
    /\ Len(env.bodies) = 2
    /\ traj[1] # traj[2]

\* C3: no write overwrites a frame file already written to the directory:
\* every successful write, of whichever writer, goes to a path no earlier
\* write went to.
C3_AppendOnly ==
    \A w1, w2 \in DOMAIN log :
        \A i \in DOMAIN log[w1], j \in DOMAIN log[w2] :
            (log[w1][i].path = log[w2][j].path) => (w1 = w2 /\ i = j)

\* C4: when the write of a frame fails (File::create or a writeln!), the
\* process panics, the counter is not advanced, update does not return, and
\* no frame with a higher number exists afterwards.
C4_WriteFailureFatal ==
    (Updated /\ last.io.kind # "ok") =>
        LET w == writers[env.writer] IN
        /\ panic = "write"
        /\ w.counter = steps
        /\ last.calls = steps + 1
        /\ Len(log[env.writer]) = steps
        /\ DOMAIN files \subseteq {FramePath(w.directory, j) : j \in 0..steps}

C4_Witness ==
    /\ Updated
    /\ last.io.kind = "line"
    /\ panic = "write"
    /\ steps = 1
    /\ FramePath(writers[env.writer].directory, 1) \in DOMAIN files

\* C5: every Mass that exists is strictly greater than 0, and a construction
\* from a value <= 0 panics and yields no body.
C5_MassPositive ==
    /\ \A i \in DOMAIN locals : FGt(locals[i].mass, Zero)
    /\ (lastOp.kind = "new" /\ FLe(lastOp.input.mass, Zero)) =>
           (panic = "mass" /\ lastOp.at = 0)

\* C6: with several fields, every field computes its forces from the same
\* body state (the one before the step) and each velocity changes by
\* (the sum of all fields' forces on the body) / mass.
C6_FieldsSummed ==
    (Updated /\ Len(env.fields) >= 2) =>
        /\ \A k1, k2 \in DOMAIN last.views : last.views[k1] = last.views[k2]
        /\ \A i \in DOMAIN last.pre :
               env.bodies[i].velocity =
                   VecAdd(last.pre[i].velocity,
                          VecDiv(SumForces(last.outs, i, Len(last.outs)),
                                 last.pre[i].mass))

\* C7: body equality is identity: a body equals itself, two distinct bodies are
\* unequal even with identical mass, position and velocity (a clone is never
\* equal to its original), and the relation is an equivalence.
C7_IdentityEquality ==
    /\ \A i, j \in DOMAIN locals : BodyEq(i, j) <=> (locals[i].id = locals[j].id)
    /\ \A i \in DOMAIN locals : BodyEq(i, i)
    /\ \A i, j \in DOMAIN locals : BodyEq(i, j) => BodyEq(j, i)
    /\ \A i, j, l \in DOMAIN locals : (BodyEq(i, j) /\ BodyEq(j, l)) => BodyEq(i, l)
    /\ lastOp.kind = "clone" => ~BodyEq(lastOp.at, lastOp.from)

C7_Witness ==
    /\ lastOp.kind = "clone"
    /\ SameValue(locals[lastOp.at], locals[lastOp.from])
    /\ ~BodyEq(lastOp.at, lastOp.from)
    /\ Len(locals) = 3

\* C8: an update keeps the length and the order of the body collection and
\* every mass; the fields see the bodies in place (same bodies, masses and
\* positions as before the step, the first field the untouched state); and
\* beyond velocities and positions an update changes only the writer's counter
\* and the frame file it writes.
C8_UpdateFrame ==
    [][(last'.calls # last.calls) =>
        /\ Len(env'.bodies) = Len(env.bodies)
        /\ \A i \in DOMAIN env.bodies :
            /\ env'.bodies[i].id = env.bodies[i].id
            /\ env'.bodies[i].mass = env.bodies[i].mass
        /\ \A k \in DOMAIN last'.views :
            /\ (k = 1 => last'.views[k] = env.bodies)
            /\ Len(last'.views[k]) = Len(env.bodies)
            /\ \A i \in DOMAIN env.bodies :
                /\ last'.views[k][i].id = env.bodies[i].id
                /\ last'.views[k][i].mass = env.bodies[i].mass
                /\ last'.views[k][i].position = env.bodies[i].position
        /\ env'.live /\ env'.fields = env.fields /\ env'.writer = env.writer
        /\ dirs' = dirs
        /\ locals' = locals
        /\ DOMAIN writers' = DOMAIN writers
        /\ \A w \in DOMAIN writers :
            /\ writers'[w].directory = writers[w].directory
            /\ w # env.writer => (writers'[w] = writers[w] /\ log'[w] = log[w])
        /\ \A q \in DOMAIN files :
               q # FramePath(writers[env.writer].directory, writers[env.writer].counter)
                   => (q \in DOMAIN files' /\ files'[q] = files[q])
        /\ DOMAIN files' \subseteq
               DOMAIN files \cup {FramePath(writers[env.writer].directory,
                                            writers[env.writer].counter)}
      ]_vars

C8_Witness ==
    /\ Running
    /\ steps = 2
    /\ Len(env.bodies) = 2
    /\ env.bodies[1].mass # env.bodies[2].mass
    /\ Len(env.fields) = 2
    /\ env.bodies[1].velocity # last.pre[1].velocity

\* C9: apply_force(f) adds f / mass to the velocity and leaves position and
\* mass alone; apply_velocity adds the velocity to the position (x += dx,
\* y += dy) and leaves velocity and mass alone.
C9_ApplyForceApplyVelocity ==
    /\ lastOp.kind = "apply_force" =>
        LET b == locals[lastOp.at]
            o == lastOp.before
        IN  /\ b.velocity.dx = FAdd(o.velocity.dx, FDiv(lastOp.force.dx, o.mass))
            /\ b.velocity.dy = FAdd(o.velocity.dy, FDiv(lastOp.force.dy, o.mass))
            /\ b.position = o.position
            /\ b.mass = o.mass
    /\ lastOp.kind = "apply_velocity" =>
        LET b == locals[lastOp.at]
            o == lastOp.before
        IN  /\ b.position.x = FAdd(o.position.x, o.velocity.dx)
            /\ b.position.y = FAdd(o.position.y, o.velocity.dy)
            /\ b.velocity = o.velocity
            /\ b.mass = o.mass

C9_Witness ==
    /\ lastOp.kind = "apply_force"
    /\ lastOp.before.mass = Num(2)
    /\ lastOp.force = Vector(4, -2)
    /\ locals[lastOp.at].velocity = Vector(0, 4)
    /\ locals[lastOp.at].position = Point(1, 2)

\* C10: Environment::new(fields, writer) holds the supplied fields and writer
\* and no bodies, and creates no storage location: the only directories are
\* those created by DataWriter::new for the writers that exist.
C10_NoExtraStorage ==
    /\ dirs \subseteq {writers[w].directory : w \in DOMAIN writers}
    /\ (env.live /\ steps = 0 /\ last.calls = 0) => env.writer \in DOMAIN writers

====
